---- MODULE Spec2Model ----
(***************************************************************************)
(* Periodic 1-D advection advanced by a three-stage Runge-Kutta scheme,    *)
(* with its tangent-linear and adjoint operators and the harness that      *)
(* checks them (solvers-jax/advection-rk3-jax.py).                         *)
(*                                                                         *)
(* Arithmetic.  The program computes in float64.  The model computes the   *)
(* same expressions over exact numbers: a Number is a fraction whose       *)
(* numerator is an unbounded integer and whose denominator is a product of *)
(* powers of 2, 3 and 5, kept in lowest terms, so that two Numbers are     *)
(* equal as values exactly when they are equal as records.  Every quantity *)
(* the program forms from the modelled inputs has such a denominator.      *)
(* Rounding is the one thing the model leaves out.                         *)
(*                                                                         *)
(* Calls.  A call of a solver hands the engine its registers (eng); the    *)
(* engine advances one Runge-Kutta stage per step of the model, and the    *)
(* caller continues when the engine is done.                               *)
(***************************************************************************)
EXTENDS Integers, Sequences, FiniteSets, TLC

(***************************************************************************)
(* Unbounded naturals: little-endian sequences of limbs, no leading zero.  *)
(***************************************************************************)
Limb == 100 * 100

Rest(m) == IF m = <<>> THEN m ELSE Tail(m)
Low(m) == IF m = <<>> THEN 0 ELSE Head(m)

RECURSIVE Trim(_)
Trim(m) ==
    IF m = <<>> THEN m
    ELSE IF m[Len(m)] = 0 THEN Trim(SubSeq(m, 1, Len(m) - 1)) ELSE m

RECURSIVE MagAddC(_, _, _)
MagAddC(a, b, c) ==
    IF a = <<>> /\ b = <<>>
    THEN (IF c = 0 THEN <<>> ELSE <<c>>)
    ELSE <<(Low(a) + Low(b) + c) % Limb>>
         \o MagAddC(Rest(a), Rest(b), (Low(a) + Low(b) + c) \div Limb)

MagAdd(a, b) == MagAddC(a, b, 0)

\* a - b - c for a >= b + c, before trimming
RECURSIVE MagSubC(_, _, _)
MagSubC(a, b, c) ==
    IF a = <<>> THEN <<>>
    ELSE <<(Head(a) - Low(b) - c) % Limb>>
         \o MagSubC(Tail(a), Rest(b), IF Head(a) - Low(b) - c < 0 THEN 1 ELSE 0)

MagSub(a, b) == Trim(MagSubC(a, b, 0))

\* -1, 0, 1 as a < b, a = b, a > b, for a and b of the same length
RECURSIVE MagCmpAt(_, _, _)
MagCmpAt(a, b, i) ==
    IF i = 0 THEN 0
    ELSE IF a[i] < b[i] THEN -1
    ELSE IF a[i] > b[i] THEN 1
    ELSE MagCmpAt(a, b, i - 1)

MagCmp(a, b) ==
    IF Len(a) < Len(b) THEN -1
    ELSE IF Len(a) > Len(b) THEN 1
    ELSE MagCmpAt(a, b, Len(a))

\* a * k + c for 0 < k < Limb
RECURSIVE MagMulSmallC(_, _, _)
MagMulSmallC(a, k, c) ==
    IF a = <<>> THEN (IF c = 0 THEN <<>> ELSE <<c>>)
    ELSE <<(Head(a) * k + c) % Limb>>
         \o MagMulSmallC(Tail(a), k, (Head(a) * k + c) \div Limb)

RECURSIVE MagMul(_, _)
MagMul(a, b) ==
    IF a = <<>> \/ b = <<>> THEN <<>>
    ELSE MagAdd(IF Head(b) = 0 THEN <<>> ELSE MagMulSmallC(a, Head(b), 0),
                IF Len(b) = 1 THEN <<>> ELSE <<0>> \o MagMul(a, Tail(b)))

\* a * p^k
RECURSIVE MagPow(_, _, _)
MagPow(a, p, k) ==
    IF k = 0 \/ a = <<>> THEN a
    ELSE IF k >= 5 THEN MagPow(MagMulSmallC(a, p * p * p * p * p, 0), p, k - 5)
    ELSE MagPow(MagMulSmallC(a, p, 0), p, k - 1)

\* <<quotient, remainder>> of the limbs i .. 1 of a, carried r, by 0 < k < Limb
RECURSIVE MagDivModAt(_, _, _, _)
MagDivModAt(a, k, i, r) ==
    IF i = 0 THEN <<<<>>, r>>
    ELSE LET low == MagDivModAt(a, k, i - 1, (r * Limb + a[i]) % k)
         IN <<IF i = Len(a) /\ (r * Limb + a[i]) \div k = 0
              THEN low[1] ELSE Append(low[1], (r * Limb + a[i]) \div k),
              low[2]>>

\* <<a / p^m, m>> for the largest m <= cap with p^m dividing a
RECURSIVE Strip(_, _, _)
Strip(a, p, cap) ==
    IF cap = 0 THEN <<a, 0>>
    ELSE LET qr == MagDivModAt(a, p, Len(a), 0)
         IN IF qr[2] # 0 THEN <<a, 0>>
            ELSE LET s == Strip(qr[1], p, cap - 1) IN <<s[1], s[2] + 1>>

RECURSIVE MagOfNat(_)
MagOfNat(n) == IF n = 0 THEN <<>> ELSE <<n % Limb>> \o MagOfNat(n \div Limb)

(***************************************************************************)
(* Numbers: (-1)^neg * mag / (2^e[1] * 3^e[2] * 5^e[3]) in lowest terms.    *)
(***************************************************************************)
Primes == <<2, 3, 5>>

Zero == [neg |-> FALSE, mag |-> <<>>, e |-> <<0, 0, 0>>]

Max2(a, b) == IF a >= b THEN a ELSE b

\* the fraction mag / Primes^e with the common factors of the primes
\* i .. 1 removed
RECURSIVE ReduceAt(_, _, _)
ReduceAt(mag, e, i) ==
    IF i = 0 THEN <<mag, e>>
    ELSE LET s == Strip(mag, Primes[i], e[i])
         IN ReduceAt(s[1], [e EXCEPT ![i] = @ - s[2]], i - 1)

Reduce(neg, mag, e) ==
    IF mag = <<>> THEN Zero
    ELSE LET r == ReduceAt(mag, e, 3)
         IN [neg |-> neg, mag |-> r[1], e |-> r[2]]

Num(n) ==
    IF n < 0 THEN [Zero EXCEPT !.neg = TRUE, !.mag = MagOfNat(0 - n)]
    ELSE [Zero EXCEPT !.mag = MagOfNat(n)]

Neg(x) == IF x.mag = <<>> THEN x ELSE [x EXCEPT !.neg = ~x.neg]

\* mag * Primes^d
RECURSIVE LiftAt(_, _, _)
LiftAt(mag, d, i) ==
    IF i = 0 THEN mag ELSE LiftAt(MagPow(mag, Primes[i], d[i]), d, i - 1)

Add(x, y) ==
    LET e == <<Max2(x.e[1], y.e[1]), Max2(x.e[2], y.e[2]), Max2(x.e[3], y.e[3])>>
        a == LiftAt(x.mag, <<e[1] - x.e[1], e[2] - x.e[2], e[3] - x.e[3]>>, 3)
        b == LiftAt(y.mag, <<e[1] - y.e[1], e[2] - y.e[2], e[3] - y.e[3]>>, 3)
        c == MagCmp(a, b)
    IN Reduce(IF x.neg = y.neg \/ c > 0 THEN x.neg ELSE y.neg,
              IF x.neg = y.neg THEN MagAdd(a, b)
              ELSE IF c = 0 THEN <<>>
              ELSE MagSub(IF c > 0 THEN a ELSE b, IF c > 0 THEN b ELSE a),
              e)

Sub(x, y) == Add(x, Neg(y))

Mul(x, y) ==
    Reduce(x.neg # y.neg, MagMul(x.mag, y.mag),
           <<x.e[1] + y.e[1], x.e[2] + y.e[2], x.e[3] + y.e[3]>>)

\* x < y
Less(x, y) == Sub(x, y).neg

\* the numerator of y as <<cofactor, exponents>> of the primes i .. 1
RECURSIVE FactorAt(_, _, _)
FactorAt(mag, m, i) ==
    IF i = 0 THEN <<mag, m>>
    ELSE LET s == Strip(mag, Primes[i], 64)
         IN FactorAt(s[1], [m EXCEPT ![i] = s[2]], i - 1)

\* 1 / y, for y # 0 whose numerator has no prime factor but 2, 3 and 5
Inv(y) ==
    [neg |-> y.neg, mag |-> LiftAt(<<1>>, y.e, 3),
     e |-> FactorAt(y.mag, <<0, 0, 0>>, 3)[2]]

Div(x, y) == Mul(x, Inv(y))

(***************************************************************************)
(* Arrays: sequences of Numbers, At(u, i) the element at the program's     *)
(* index i = 0 .. n-1, and the array operations the program uses.          *)
(***************************************************************************)
Size(u) == Len(u)

At(u, i) == u[i + 1]

\* jnp.roll(u, k): the element at index i moves to index (i + k) mod n
RECURSIVE rollTo(_, _, _)
rollTo(u, k, n) ==
    IF n = 0 THEN <<>>
    ELSE Append(rollTo(u, k, n - 1), At(u, (n - 1 - k) % Size(u)))

roll(u, k) == rollTo(u, k, Size(u))

RECURSIVE VAddTo(_, _, _)
VAddTo(x, y, n) ==
    IF n = 0 THEN <<>> ELSE Append(VAddTo(x, y, n - 1), Add(x[n], y[n]))

VAdd(x, y) == VAddTo(x, y, Size(x))

RECURSIVE VSubTo(_, _, _)
VSubTo(x, y, n) ==
    IF n = 0 THEN <<>> ELSE Append(VSubTo(x, y, n - 1), Sub(x[n], y[n]))

VSub(x, y) == VSubTo(x, y, Size(x))

\* scalar * array
RECURSIVE SMulTo(_, _, _)
SMulTo(c, x, n) ==
    IF n = 0 THEN <<>> ELSE Append(SMulTo(c, x, n - 1), Mul(c, x[n]))

SMul(c, x) == SMulTo(c, x, Size(x))

\* array / scalar
SDiv(x, c) == SMul(Inv(c), x)

RECURSIVE SumTo(_, _)
SumTo(x, n) == IF n = 0 THEN Zero ELSE Add(SumTo(x, n - 1), x[n])

Sum(x) == SumTo(x, Size(x))

\* np.dot
RECURSIVE dotTo(_, _, _)
dotTo(x, y, n) ==
    IF n = 0 THEN Zero ELSE Add(dotTo(x, y, n - 1), Mul(x[n], y[n]))

dot(x, y) == dotTo(x, y, Size(x))

\* np.linalg.norm(x) ** 2; the norm itself is carried as its square
NormSq(x) == dot(x, x)

(***************************************************************************)
(* The spatial operator and the right-hand side.                           *)
(***************************************************************************)
\* create_advection_opeartor(dx, n): the closure advection_op captures
create_advection_opeartor(dx, n) == [dx |-> dx, n |-> n]

\* the stencil without the wrap at index 0
advection_op_no_wrap(A, u) ==
    SDiv(VSub(roll(u, -1), <<u[1]>> \o SubSeq(u, 1, Size(u) - 1)),
         Mul(A.dx, Num(2)))

\* the stencil with its two neighbours exchanged
advection_op_swapped(A, u) ==
    SDiv(VSub(roll(u, 1), roll(u, -1)), Mul(A.dx, Num(2)))

\* a one-sided difference
advection_op_one_sided(A, u) == SDiv(VSub(roll(u, -1), u), Mul(A.dx, Num(2)))

\* the stencil with a source term
advection_op_leaky(A, u) ==
    SDiv(VAdd(VSub(roll(u, -1), roll(u, 1)), u), Mul(A.dx, Num(2)))

advection_op(A, u) ==
    LET dx2 == Mul(A.dx, Num(2))
    IN SDiv(VSub(roll(u, -1), roll(u, 1)), dx2)

\* jax.jvp of advection_op at u along du: roll, - and / are linear, and the
\* tangent of each is the same operation on the tangent
advection_op_jvp(A, u, du) ==
    LET dx2 == Mul(A.dx, Num(2))
    IN SDiv(VSub(roll(du, -1), roll(du, 1)), dx2)

\* jax.vjp of advection_op at u on the cotangent Dv: the transpose of
\* roll(., k) is roll(., -k), and the cotangent of a - b is (Dv, -Dv)
advection_op_vjp(A, u, Dv) ==
    LET dx2 == Mul(A.dx, Num(2))
        Dw == SDiv(Dv, dx2)
    IN VAdd(roll(Dw, 1), roll(SMul(Num(-1), Dw), -1))

\* the closure f of a solver: f(u) = - v * A(u)
f(fc, u) == SMul(Neg(fc.v), advection_op(fc.A, u))

f_jvp(fc, u, du) == SMul(Neg(fc.v), advection_op_jvp(fc.A, u, du))

f_vjp(fc, u, Dv) == advection_op_vjp(fc.A, u, SMul(Neg(fc.v), Dv))

(***************************************************************************)
(* The RK3 engine (module rk3): the stage formulas of the forward, the     *)
(* tangent-linear and the reverse recurrence.                              *)
(***************************************************************************)
Quarter == Div(Num(1), Num(4))
Third == Div(Num(1), Num(3))
ThreeQuarters == Div(Num(3), Num(4))
TwoThirds == Div(Num(2), Num(3))

\* k1 = u + dt f(u)
RK3_stage1(fc, u, dt) == VAdd(u, SMul(dt, f(fc, u)))

\* k2 = 3/4 u + 1/4 (k1 + dt f(k1))
RK3_stage2(fc, u, k1, dt) ==
    VAdd(SMul(ThreeQuarters, u), SMul(Quarter, VAdd(k1, SMul(dt, f(fc, k1)))))

\* u_next = 1/3 u + 2/3 (k2 + dt f(k2))
RK3_stage3(fc, u, k2, dt) ==
    VAdd(SMul(Third, u), SMul(TwoThirds, VAdd(k2, SMul(dt, f(fc, k2)))))

\* dk1 = du + dt df(u, du)
RK3_tlm_stage1(fc, u, du, dt) == VAdd(du, SMul(dt, f_jvp(fc, u, du)))

\* dk2 = 3/4 du + 1/4 (dk1 + dt df(k1, dk1))
RK3_tlm_stage2(fc, du, k1, dk1, dt) ==
    VAdd(SMul(ThreeQuarters, du),
         SMul(Quarter, VAdd(dk1, SMul(dt, f_jvp(fc, k1, dk1)))))

\* du_next = 1/3 du + 2/3 (dk2 + dt df(k2, dk2))
RK3_tlm_stage3(fc, du, k2, dk2, dt) ==
    VAdd(SMul(Third, du),
         SMul(TwoThirds, VAdd(dk2, SMul(dt, f_jvp(fc, k2, dk2)))))

\* D + dt f^T(x, D): the cotangent D taken back through x + dt f(x)
RK3_adm_through(fc, x, D, dt) == VAdd(D, SMul(dt, f_vjp(fc, x, D)))

\* Dk2' = Dk2 + dt f^T(k2, Dk2) with Dk2 = 2/3 Dv
RK3_adm_stage3(fc, k2, Dv, dt) ==
    RK3_adm_through(fc, k2, SMul(TwoThirds, Dv), dt)

\* Dk1' = Dk1 + dt f^T(k1, Dk1) with Dk1 = 1/4 Dk2'
RK3_adm_stage2(fc, k1, Dk2p, dt) ==
    RK3_adm_through(fc, k1, SMul(Quarter, Dk2p), dt)

\* Dv_n = 1/3 Dv + 3/4 Dk2' + Dk1' + dt f^T(u_n, Dk1')
RK3_adm_stage1(fc, u, Dv, Dk2p, Dk1p, dt) ==
    VAdd(VAdd(SMul(Third, Dv), SMul(ThreeQuarters, Dk2p)),
         RK3_adm_through(fc, u, Dk1p, dt))

(***************************************************************************)
(* The engine's registers, and the entry points RK3, RK3_tlm and RK3_adm.  *)
(***************************************************************************)
Idle ==
    [at |-> "idle", mode |-> "", fc |-> <<>>, dt |-> Zero, left |-> 0,
     u |-> <<>>, k1 |-> <<>>, k2 |-> <<>>,
     du |-> <<>>, dk1 |-> <<>>, dk2 |-> <<>>,
     Dv |-> <<>>, Dk2p |-> <<>>, Dk1p |-> <<>>, tape |-> <<>>]

RK3(fc, u_initial, dt, num_steps) ==
    [Idle EXCEPT !.at = "stage1", !.mode = "rk3", !.fc = fc, !.dt = dt,
                 !.left = num_steps, !.u = u_initial]

\* a tangent of another length than the state is refused on entry
RK3_tlm(fc, u_initial, du_initial, dt, num_steps) ==
    IF Size(du_initial) # Size(u_initial)
    THEN [Idle EXCEPT !.at = "raised", !.mode = "tlm"]
    ELSE [Idle EXCEPT !.at = "stage1", !.mode = "tlm", !.fc = fc, !.dt = dt,
                      !.left = num_steps, !.u = u_initial, !.du = du_initial]

\* a cotangent of another length than the state is refused on entry
RK3_adm(fc, u_initial, Du, dt, num_steps) ==
    IF Size(Du) # Size(u_initial)
    THEN [Idle EXCEPT !.at = "raised", !.mode = "adm"]
    ELSE [Idle EXCEPT !.at = "stage1", !.mode = "adm", !.fc = fc, !.dt = dt,
                      !.left = num_steps, !.u = u_initial, !.Dv = Du]

(***************************************************************************)
(* The three solvers: each builds the operator and the closure f and       *)
(* enters the engine.                                                      *)
(***************************************************************************)
solver_rk3(u_initial, v, dx, num_points, dt, num_steps) ==
    RK3([v |-> v, A |-> create_advection_opeartor(dx, num_points)],
        u_initial, dt, num_steps)

\* the tangent started from du_initial + u_initial
solver_rk3_tlm_affine(u_initial, du_initial, v, dx, num_points, dt, num_steps) ==
    RK3_tlm([v |-> v, A |-> create_advection_opeartor(dx, num_points)],
            u_initial, VAdd(du_initial, u_initial), dt, num_steps)

\* the tangent advected at twice the velocity
solver_rk3_tlm_fast(u_initial, du_initial, v, dx, num_points, dt, num_steps) ==
    RK3_tlm([v |-> Mul(Num(2), v),
             A |-> create_advection_opeartor(dx, num_points)],
            u_initial, du_initial, dt, num_steps)

solver_rk3_tlm(u_initial, du_initial, v, dx, num_points, dt, num_steps) ==
    RK3_tlm([v |-> v, A |-> create_advection_opeartor(dx, num_points)],
            u_initial, du_initial, dt, num_steps)

\* the adjoint of the advection at the opposite velocity
solver_rk3_adm_reversed(u_initial, Du, v, dx, num_points, dt, num_steps) ==
    RK3_adm([v |-> Neg(v), A |-> create_advection_opeartor(dx, num_points)],
            u_initial, Du, dt, num_steps)

solver_rk3_adm(u_initial, Du, v, dx, num_points, dt, num_steps) ==
    RK3_adm([v |-> v, A |-> create_advection_opeartor(dx, num_points)],
            u_initial, Du, dt, num_steps)

\* what the solver that called the engine returns: RK3's state, the dy of
\* RK3_tlm's pair, the Du_initial of RK3_adm's pair
solver_return(e) ==
    IF e.at # "done" THEN <<>>
    ELSE IF e.mode = "rk3" THEN e.u
    ELSE IF e.mode = "tlm" THEN e.du
    ELSE e.Dv

(***************************************************************************)
(* The parameters of the main program.                                     *)
(***************************************************************************)
NumPoints == 3
MaxSteps == 2
NumSteps == 8
NumScales == 15

num_points == NumPoints
domain_length == Num(1)
dx == Div(domain_length, Num(num_points))
v == Div(Num(6), Num(5))
C == Div(Num(1), Num(10))
dt == Mul(Div(dx, v), C)

\* 1.0e-13
Tol13 == [neg |-> FALSE, mag |-> <<1>>, e |-> <<13, 0, 13>>]

Half == Div(Num(1), Num(2))

\* np.concatenate((u[len(u)-1:len(u)], u[:len(u)-1]))
u_initial_p(u_initial) ==
    <<u_initial[Size(u_initial)]>> \o SubSeq(u_initial, 1, Size(u_initial) - 1)

(***************************************************************************)
(* Input arrays.                                                           *)
(***************************************************************************)
RECURSIVE PulseTo(_, _)
PulseTo(j, n) ==
    IF n = 0 THEN <<>>
    ELSE Append(PulseTo(j, n - 1), IF n = j THEN Num(1) ELSE Zero)

\* 1/2, 1, 3/2, ...
RECURSIVE RampTo(_)
RampTo(n) == IF n = 0 THEN <<>> ELSE Append(RampTo(n - 1), Mul(Half, Num(n)))

\* n, -1/2, n, ...
RECURSIVE SawTo(_)
SawTo(n) ==
    IF n = 0 THEN <<>>
    ELSE Append(SawTo(n - 1), IF n % 2 = 1 THEN Num(n) ELSE Neg(Half))

\* 1/2, 1/4, 1/8, ...
RECURSIVE GeomTo(_)
GeomTo(n) ==
    IF n = 0 THEN <<>>
    ELSE IF n = 1 THEN <<Half>>
    ELSE Append(GeomTo(n - 1), Mul(Half, GeomTo(n - 1)[n - 1]))

Arrays(n) == {PulseTo(j, n) : j \in 1 .. n} \cup {RampTo(n), SawTo(n)}

BaseStates(n) == {RampTo(n), SawTo(n)}

Scalars == {Num(2), Neg(Third)}

\* rng.random((n,)): arrays with every element in [0, 1)
rng_random(n) == {GeomTo(n), SMul(Half, PulseTo(n, n))}

Tolerances == {Tol13, Zero}

\* an array one element shorter
Short(u) == SubSeq(u, 1, Size(u) - 1)

(***************************************************************************)
(* State.                                                                  *)
(***************************************************************************)
VARIABLES
    u0,         \* the base state
    du,         \* the perturbation
    Dv,         \* the cotangent
    c,          \* a scalar
    tol,        \* the tolerance handed to the checks
    num_steps,  \* the number of steps of every solve
    pc,         \* where the caller is
    eng,        \* the engine's registers
    out,        \* what the calls of the solvers returned
    loc,        \* the locals of the running check
    res         \* the (flag, error) pairs the checks returned

vars == <<u0, du, Dv, c, tol, num_steps, pc, eng, out, loc, res>>

caller == <<u0, du, Dv, c, tol, num_steps, pc, out, loc, res>>

Locals0 ==
    [dv |-> <<>>, v0 |-> <<>>, v1 |-> <<>>, scale |-> Zero, i |-> 0,
     absolute_errors |-> <<>>, relavite_errors |-> <<>>]

(***************************************************************************)
(* The engine: one stage of the recurrence per step.                       *)
(***************************************************************************)
RK3_Stage1 ==
    /\ eng.at = "stage1"
    /\ eng' = [eng EXCEPT
                 !.k1 = RK3_stage1(eng.fc, eng.u, eng.dt),
                 !.dk1 = IF eng.mode = "tlm"
                         THEN RK3_tlm_stage1(eng.fc, eng.u, eng.du, eng.dt)
                         ELSE @,
                 !.at = "stage2"]
    /\ UNCHANGED caller

RK3_Stage2 ==
    /\ eng.at = "stage2"
    /\ eng' = [eng EXCEPT
                 !.k2 = RK3_stage2(eng.fc, eng.u, eng.k1, eng.dt),
                 !.dk2 = IF eng.mode = "tlm"
                         THEN RK3_tlm_stage2(eng.fc, eng.du, eng.k1, eng.dk1,
                                             eng.dt)
                         ELSE @,
                 !.at = "stage3"]
    /\ UNCHANGED caller

\* the last stage ends the step; the reverse sweep keeps the step's stages
RK3_Stage3 ==
    /\ eng.at = "stage3"
    /\ eng' = [eng EXCEPT
                 !.u = RK3_stage3(eng.fc, eng.u, eng.k2, eng.dt),
                 !.du = IF eng.mode = "tlm"
                        THEN RK3_tlm_stage3(eng.fc, eng.du, eng.k2, eng.dk2,
                                            eng.dt)
                        ELSE @,
                 !.tape = IF eng.mode = "adm"
                          THEN Append(@, [u |-> eng.u, k1 |-> eng.k1,
                                          k2 |-> eng.k2])
                          ELSE @,
                 !.left = @ - 1,
                 !.at = IF eng.left > 1 THEN "stage1"
                        ELSE IF eng.mode = "adm" THEN "adj3" ELSE "done"]
    /\ UNCHANGED caller

RK3_Adj3 ==
    /\ eng.at = "adj3"
    /\ eng' = [eng EXCEPT
                 !.Dk2p = RK3_adm_stage3(eng.fc, eng.tape[Len(eng.tape)].k2,
                                         eng.Dv, eng.dt),
                 !.at = "adj2"]
    /\ UNCHANGED caller

RK3_Adj2 ==
    /\ eng.at = "adj2"
    /\ eng' = [eng EXCEPT
                 !.Dk1p = RK3_adm_stage2(eng.fc, eng.tape[Len(eng.tape)].k1,
                                         eng.Dk2p, eng.dt),
                 !.at = "adj1"]
    /\ UNCHANGED caller

RK3_Adj1 ==
    /\ eng.at = "adj1"
    /\ eng' = [eng EXCEPT
                 !.Dv = RK3_adm_stage1(eng.fc, eng.tape[Len(eng.tape)].u,
                                       eng.Dv, eng.Dk2p, eng.Dk1p, eng.dt),
                 !.tape = SubSeq(@, 1, Len(@) - 1),
                 !.at = IF Len(eng.tape) > 1 THEN "adj3" ELSE "done"]
    /\ UNCHANGED caller

(***************************************************************************)
(* The wrappers of the main program.                                       *)
(***************************************************************************)
m(u) == solver_rk3(u, v, dx, num_points, dt, num_steps)

\* the tangent-linear solve with half the time step
TLM_half_dt(u, pert) ==
    solver_rk3_tlm(u, pert, v, dx, num_points, Mul(Half, dt), num_steps)

TLM(u, pert) == solver_rk3_tlm(u, pert, v, dx, num_points, dt, num_steps)

ADM(u, cot) == solver_rk3_adm(u, cot, v, dx, num_points, dt, num_steps)

(***************************************************************************)
(* A client of the solvers: it calls them one after the other on a base    *)
(* state, a perturbation, a scalar and a cotangent, and then applies the   *)
(* spatial operator and the right-hand side on their own.                  *)
(***************************************************************************)
Script ==
    <<"m", "m_p", "m_short", "tlm", "m_du", "tlm_p", "tlm_short",
      "tlm_c", "m_c", "adm", "adm_short", "operator", "done">>

After(name) == Script[1 + CHOOSE i \in 1 .. Len(Script) - 1 : Script[i] = name]

Call(name, u, pert, s, cot) ==
    CASE name = "m" -> m(u)
      [] name = "m_p" -> m(u_initial_p(u))
      [] name = "m_short" -> m(Short(u))
      [] name = "tlm" -> TLM(u, pert)
      [] name = "m_du" -> m(pert)
      [] name = "tlm_p" -> TLM(u_initial_p(u), pert)
      [] name = "tlm_short" -> TLM(u, Short(pert))
      [] name = "tlm_c" -> TLM(u, SMul(s, pert))
      [] name = "m_c" -> m(VAdd(u, SMul(s, pert)))
      [] name = "adm" -> ADM(u, cot)
      [] name = "adm_short" -> ADM(u, Short(cot))

\* the call at pc; the perturbation, the scalar and the cotangent are
\* chosen when a call first needs them
Invoke ==
    /\ pc \in {"m", "m_p", "m_short", "tlm", "m_du", "tlm_p", "tlm_short",
               "tlm_c", "m_c", "adm", "adm_short"}
    /\ eng.at = "idle"
    /\ \E x \in (IF pc = "tlm" THEN Arrays(num_points) ELSE {du}),
          s \in (IF pc = "tlm_c" THEN Scalars ELSE {c}),
          y \in (IF pc = "adm" THEN Arrays(num_points) ELSE {Dv}) :
            /\ du' = x
            /\ c' = s
            /\ Dv' = y
            /\ eng' = Call(pc, u0, x, s, y)
    /\ UNCHANGED <<u0, tol, num_steps, pc, out, loc, res>>

\* the call at pc has ended, with a result or with an error
Return ==
    /\ pc \in {"m", "m_p", "m_short", "tlm", "m_du", "tlm_p", "tlm_short",
               "tlm_c", "m_c", "adm", "adm_short"}
    /\ eng.at \in {"done", "raised"}
    /\ out' = out @@ (pc :> [raised |-> eng.at = "raised",
                             value |-> solver_return(eng)])
    /\ eng' = Idle
    /\ pc' = After(pc)
    /\ UNCHANGED <<u0, du, Dv, c, tol, num_steps, loc, res>>

A0 == create_advection_opeartor(dx, num_points)

fc0 == [v |-> v, A |-> A0]

ApplyOperator ==
    /\ pc = "operator"
    /\ out' = out @@ [arg |-> u0,
                      Au |-> advection_op(A0, u0),
                      Adu |-> advection_op(A0, du),
                      ADv |-> advection_op(A0, Dv),
                      fu |-> f(fc0, u0),
                      vjpA |-> advection_op_vjp(A0, u0, Dv),
                      vjpA_du |-> advection_op_vjp(A0, du, Dv),
                      vjpf |-> f_vjp(fc0, u0, Dv),
                      vjpf_du |-> f_vjp(fc0, du, Dv)]
    /\ pc' = After(pc)
    /\ UNCHANGED <<u0, du, Dv, c, tol, num_steps, eng, loc, res>>

Init ==
    /\ u0 \in BaseStates(num_points)
    /\ num_steps \in 1 .. MaxSteps
    /\ du = <<>>
    /\ Dv = <<>>
    /\ c = Zero
    /\ tol = Zero
    /\ pc = "m"
    /\ eng = Idle
    /\ out = <<>>
    /\ loc = Locals0
    /\ res = <<>>

Next ==
    \/ Invoke
    \/ Return
    \/ ApplyOperator
    \/ RK3_Stage1
    \/ RK3_Stage2
    \/ RK3_Stage3
    \/ RK3_Adj3
    \/ RK3_Adj2
    \/ RK3_Adj1

Spec == Init /\ [][Next]_vars

(***************************************************************************)
(* The verification harness of the main program: testTLMLinearity,         *)
(* testTLMApprox and testADMApprox, called one after the other.  A norm    *)
(* is carried as its square, and the quotient of two norms as the pair of  *)
(* the squares.                                                            *)
(***************************************************************************)
N == NumPoints

\* np.abs
Abs(x) == [x EXCEPT !.neg = FALSE]

\* norm < t, for the norm whose square is sq
NormLess(sq, t) == Less(Zero, t) /\ Less(sq, Mul(t, t))

\* a / b of two norms: nan for 0 / 0, inf for a / 0
IsNaN(r) == r.num = Zero /\ r.den = Zero

\* r < t; nothing is below t when r is nan or inf
RatioLessTol(r, t) ==
    r.den # Zero /\ Less(Zero, t) /\ Less(r.num, Mul(Mul(t, t), r.den))

\* a < b for two quotients, neither of them nan
RatioLess(a, b) == Less(Mul(a.num, b.den), Mul(b.num, a.den))

\* np.min: the least element, nan when an element is nan
RECURSIVE np_minTo(_, _)
np_minTo(xs, n) ==
    IF n = 1 THEN xs[1]
    ELSE LET r == np_minTo(xs, n - 1)
         IN IF IsNaN(r) THEN r
            ELSE IF IsNaN(xs[n]) \/ RatioLess(xs[n], r) THEN xs[n] ELSE r

np_min(xs) == np_minTo(xs, Len(xs))

\* absolute_error = np.linalg.norm(dv2 - 2.0*dv)
linearity_error(dv, dv2) == NormSq(VSub(dv2, SMul(Num(2), dv)))

\* absolute_error = np.linalg.norm((scale * dv) - (v1 - v0))
approx_absolute_error(scale, dv, v1, v0) ==
    NormSq(VSub(SMul(scale, dv), VSub(v1, v0)))

\* relative_error = absolute_error / np.linalg.norm(v1 - v0)
approx_relative_error(absolute_error, v1, v0) ==
    [num |-> absolute_error, den |-> NormSq(VSub(v1, v0))]

\* absolute_error = np.abs(np.dot(dv, Dv) - np.dot(du, Du))
adjoint_error(dv, cot, pert, Du) == Abs(Sub(dot(dv, cot), dot(pert, Du)))

\* return absolute_error <= tol, absolute_error
testTLMLinearity_return_le(absolute_error, t) ==
    [test |-> "testTLMLinearity", flag |-> ~Less(Mul(t, t), absolute_error),
     error |-> absolute_error]

\* return absolute_error < tol, absolute_error
testTLMLinearity_return(absolute_error, t) ==
    [test |-> "testTLMLinearity", flag |-> NormLess(absolute_error, t),
     error |-> absolute_error]

\* return min_relative_error < tol, min_relative_error
testTLMApprox_return(min_relative_error, t) ==
    [test |-> "testTLMApprox", flag |-> RatioLessTol(min_relative_error, t),
     error |-> min_relative_error]

\* return absolute_error < tol, absolute_error
testADMApprox_return(absolute_error, t) ==
    [test |-> "testADMApprox", flag |-> Less(absolute_error, t),
     error |-> absolute_error]

testTLMLinearity_dv ==
    /\ pc = "lin_dv"
    /\ eng' = TLM(u0, du)
    /\ loc' = Locals0
    /\ pc' = "lin_dv2"
    /\ UNCHANGED <<u0, du, Dv, c, tol, num_steps, out, res>>

testTLMLinearity_dv2 ==
    /\ pc = "lin_dv2"
    /\ eng.at = "done"
    /\ loc' = [loc EXCEPT !.dv = solver_return(eng)]
    /\ eng' = TLM(u0, SMul(Num(2), du))
    /\ pc' = "lin_return"
    /\ UNCHANGED <<u0, du, Dv, c, tol, num_steps, out, res>>

testTLMLinearity_end ==
    /\ pc = "lin_return"
    /\ eng.at = "done"
    /\ res' = Append(res, testTLMLinearity_return(
                              linearity_error(loc.dv, solver_return(eng)), tol))
    /\ eng' = Idle
    /\ pc' = "apx_v0"
    /\ UNCHANGED <<u0, du, Dv, c, tol, num_steps, out, loc>>

testTLMApprox_v0 ==
    /\ pc = "apx_v0"
    /\ eng' = m(u0)
    /\ loc' = Locals0
    /\ pc' = "apx_dv"
    /\ UNCHANGED <<u0, du, Dv, c, tol, num_steps, out, res>>

testTLMApprox_dv ==
    /\ pc = "apx_dv"
    /\ eng.at = "done"
    /\ loc' = [loc EXCEPT !.v0 = solver_return(eng)]
    /\ eng' = TLM(u0, du)
    /\ pc' = "apx_scale"
    /\ UNCHANGED <<u0, du, Dv, c, tol, num_steps, out, res>>

testTLMApprox_scale ==
    /\ pc = "apx_scale"
    /\ eng.at = "done"
    /\ loc' = [loc EXCEPT !.dv = solver_return(eng), !.scale = Num(1),
                          !.absolute_errors = <<>>, !.relavite_errors = <<>>,
                          !.i = 0]
    /\ eng' = Idle
    /\ pc' = "apx_for"
    /\ UNCHANGED <<u0, du, Dv, c, tol, num_steps, out, res>>

\* for i in range(15): the next solve, or the end of the loop
testTLMApprox_for ==
    /\ pc = "apx_for"
    /\ IF loc.i < NumScales
       THEN /\ eng' = m(VAdd(u0, SMul(loc.scale, du)))
            /\ pc' = "apx_body"
       ELSE /\ eng' = eng
            /\ pc' = "apx_return"
    /\ UNCHANGED <<u0, du, Dv, c, tol, num_steps, out, loc, res>>

testTLMApprox_body ==
    /\ pc = "apx_body"
    /\ eng.at = "done"
    /\ loc' = [loc EXCEPT
                 !.v1 = solver_return(eng),
                 !.absolute_errors =
                     Append(@, approx_absolute_error(loc.scale, loc.dv,
                                                     solver_return(eng), loc.v0)),
                 !.relavite_errors =
                     Append(@, approx_relative_error(
                                   approx_absolute_error(loc.scale, loc.dv,
                                                         solver_return(eng),
                                                         loc.v0),
                                   solver_return(eng), loc.v0)),
                 !.scale = Div(@, Num(10)),
                 !.i = @ + 1]
    /\ eng' = Idle
    /\ pc' = "apx_for"
    /\ UNCHANGED <<u0, du, Dv, c, tol, num_steps, out, res>>

testTLMApprox_end ==
    /\ pc = "apx_return"
    /\ res' = Append(res, testTLMApprox_return(np_min(loc.relavite_errors),
                                               tol))
    /\ pc' = "adm_dv"
    /\ UNCHANGED <<u0, du, Dv, c, tol, num_steps, eng, out, loc>>

testADMApprox_dv ==
    /\ pc = "adm_dv"
    /\ eng' = TLM(u0, du)
    /\ loc' = Locals0
    /\ pc' = "adm_Du"
    /\ UNCHANGED <<u0, du, Dv, c, tol, num_steps, out, res>>

\* M = jnp.size(dv); Dv = rng.random((M,)); the adjoint solve
testADMApprox_Du ==
    /\ pc = "adm_Du"
    /\ eng.at = "done"
    /\ loc' = [loc EXCEPT !.dv = solver_return(eng)]
    /\ \E y \in rng_random(Size(solver_return(eng))) :
          /\ Dv' = y
          /\ eng' = ADM(u0, y)
    /\ pc' = "adm_return"
    /\ UNCHANGED <<u0, du, c, tol, num_steps, out, res>>

testADMApprox_end ==
    /\ pc = "adm_return"
    /\ eng.at = "done"
    /\ res' = Append(res, testADMApprox_return(
                              adjoint_error(loc.dv, Dv, du, solver_return(eng)),
                              tol))
    /\ eng' = Idle
    /\ pc' = "end"
    /\ UNCHANGED <<u0, du, Dv, c, tol, num_steps, out, loc>>

InitHarness ==
    /\ u0 \in rng_random(N)
    /\ du \in rng_random(N)
    /\ Dv = <<>>
    /\ c = Zero
    /\ tol \in Tolerances
    /\ num_steps = NumSteps
    /\ pc = "lin_dv"
    /\ eng = Idle
    /\ out = <<>>
    /\ loc = Locals0
    /\ res = <<>>

NextHarness ==
    \/ testTLMLinearity_dv
    \/ testTLMLinearity_dv2
    \/ testTLMLinearity_end
    \/ testTLMApprox_v0
    \/ testTLMApprox_dv
    \/ testTLMApprox_scale
    \/ testTLMApprox_for
    \/ testTLMApprox_body
    \/ testTLMApprox_end
    \/ testADMApprox_dv
    \/ testADMApprox_Du
    \/ testADMApprox_end
    \/ RK3_Stage1
    \/ RK3_Stage2
    \/ RK3_Stage3
    \/ RK3_Adj3
    \/ RK3_Adj2
    \/ RK3_Adj1

SpecHarness == InitHarness /\ [][NextHarness]_vars

(***************************************************************************)
(* Properties.                                                             *)
(***************************************************************************)
\* C1: adjoint identity.  For every base state u0, perturbation du and
\* cotangent Dv of length num_points and every number of steps, the dot
\* product of solver_rk3_tlm(u0, du) with Dv equals the dot product of du
\* with solver_rk3_adm(u0, Dv).
C1_AdjointIdentity ==
    "adm" \in DOMAIN out =>
        /\ ~out.tlm.raised /\ ~out.adm.raised
        /\ Size(out.tlm.value) = num_points
        /\ Size(out.adm.value) = num_points
        /\ dot(out.tlm.value, Dv) = dot(du, out.adm.value)

C1_Witness ==
    /\ "adm" \in DOMAIN out
    /\ num_steps = MaxSteps
    /\ dot(out.tlm.value, Dv) # Zero
    /\ out.adm.value # Dv

\* C2: linearity of the tangent-linear solver.  For the base state u0, every
\* perturbation du and every scalar c, solver_rk3_tlm(u0, c du) equals
\* c solver_rk3_tlm(u0, du), after any number of steps.
C2_TangentLinear ==
    "tlm_c" \in DOMAIN out =>
        /\ ~out.tlm_c.raised
        /\ out.tlm_c.value = SMul(c, out.tlm.value)

C2_Witness ==
    /\ "tlm_c" \in DOMAIN out
    /\ c = Num(2)
    /\ num_steps = MaxSteps
    /\ out.tlm.value # du
    /\ out.tlm_c.value # out.tlm.value

\* C4: shift equivariance.  One step of solver_rk3 on the state shifted
\* circularly by one grid point gives the one-step result of the state,
\* shifted by the same one grid point.
C4_ShiftEquivariance ==
    (num_steps = 1 /\ "m_p" \in DOMAIN out) =>
        out.m_p.value = u_initial_p(out.m.value)

C4_Witness ==
    /\ num_steps = 1
    /\ "m_p" \in DOMAIN out
    /\ out.m_p.value # out.m.value
    /\ out.m.value # u0

\* C5: advection_op returns, at every index i of an input u of length N,
\* (u[(i+1) mod N] - u[(i-1) mod N]) / (2 dx); index 0 uses u[N-1], index
\* N-1 uses u[0]; and the input is left as it was.
C5_Stencil ==
    LET Stencil(x, i) ==
            Div(Sub(At(x, (i + 1) % Size(x)), At(x, (i - 1) % Size(x))),
                Mul(Num(2), dx))
    IN "Au" \in DOMAIN out =>
        /\ Size(out.Au) = Size(u0)
        /\ \A i \in 0 .. Size(u0) - 1 : At(out.Au, i) = Stencil(u0, i)
        /\ \A i \in 0 .. Size(du) - 1 : At(out.Adu, i) = Stencil(du, i)
        /\ At(out.Au, 0) =
               Div(Sub(At(u0, 1), At(u0, Size(u0) - 1)), Mul(Num(2), dx))
        /\ At(out.Au, Size(u0) - 1) =
               Div(Sub(At(u0, 0), At(u0, Size(u0) - 2)), Mul(Num(2), dx))
        /\ out.arg = u0

C5_Witness ==
    /\ "Au" \in DOMAIN out
    /\ At(u0, 0) # At(u0, Size(u0) - 1)
    /\ At(out.Au, 0) # Zero
    /\ At(out.Au, Size(u0) - 1) # Zero

\* C6: a call of a solver with a state of another length than num_points,
\* or with a perturbation or a cotangent of another length than the state,
\* ends in an error and returns no result.
C6_MismatchRejected ==
    \A name \in {"m_short", "tlm_short", "adm_short"} :
        name \in DOMAIN out => (out[name].raised /\ out[name].value = <<>>)

\* C8: the operator is anti-symmetric: the dot product of A(x) with y is
\* minus the dot product of x with A(y); the vector-Jacobian product of A
\* at any u on Dv is -A(Dv), and that of f is v A(Dv), whatever u.
C8_AntiSymmetric ==
    "Au" \in DOMAIN out =>
        /\ dot(out.Adu, Dv) = Neg(dot(du, out.ADv))
        /\ dot(out.Au, Dv) = Neg(dot(u0, out.ADv))
        /\ out.vjpA = SMul(Num(-1), out.ADv)
        /\ out.vjpA_du = out.vjpA
        /\ out.vjpf = SMul(v, out.ADv)
        /\ out.vjpf_du = out.vjpf

C8_Witness ==
    /\ "Au" \in DOMAIN out
    /\ dot(out.Adu, Dv) # Zero
    /\ out.vjpf # out.vjpA
    /\ du # u0

\* C9: conservation.  The components of advection_op(u) and of f(u) sum to
\* zero, and the components of the state of solver_rk3 sum to the same
\* after every stage and after every step as they did initially.
C9_Conservation ==
    /\ "Au" \in DOMAIN out =>
           /\ Sum(out.Au) = Zero
           /\ Sum(out.Adu) = Zero
           /\ Sum(out.fu) = Zero
    /\ (pc \in {"m", "m_p"} /\ eng.mode = "rk3") =>
           /\ Sum(eng.u) = Sum(u0)
           /\ eng.at \in {"stage2", "stage3"} => Sum(eng.k1) = Sum(u0)
           /\ eng.at = "stage3" => Sum(eng.k2) = Sum(u0)
    /\ "m" \in DOMAIN out => Sum(out.m.value) = Sum(u0)

C9_Witness ==
    /\ pc = "m"
    /\ eng.at = "stage3"
    /\ eng.left = 1
    /\ num_steps = MaxSteps
    /\ Sum(u0) # Zero
    /\ eng.k2 # eng.u
    /\ eng.u # u0

\* C10: the tangent-linear result does not depend on the base state and is
\* the forward solve of the perturbation, and the forward solve of
\* u0 + s du differs from that of u0 by s times the tangent-linear result.
C10_TangentIsForward ==
    "m_c" \in DOMAIN out =>
        /\ out.tlm.value = out.tlm_p.value
        /\ out.tlm.value = out.m_du.value
        /\ VSub(out.m_c.value, out.m.value) = SMul(c, out.tlm.value)

C10_Witness ==
    /\ "m_c" \in DOMAIN out
    /\ num_steps = MaxSteps
    /\ u_initial_p(u0) # u0
    /\ out.m.value # out.m_du.value
    /\ out.m_c.value # out.m.value

\* C3: testTLMApprox takes 15 scales 1, 1/10, 1/100, ... (Tenth(k) is
\* 1 / (2^k 5^k), the k-th of them, counted from 0), forms for each
\* the norm of s TLM(u0, du) - (m(u0 + s du) - m(u0)) over the norm of
\* m(u0 + s du) - m(u0), and the least of the 15 quotients is below the
\* tolerance 1e-13, so that the check returns success.
C3_TaylorRemainder ==
    LET Tenth(k) == [Zero EXCEPT !.mag = <<1>>, !.e = <<k, 0, k>>]
    IN
    /\ pc \in {"apx_for", "apx_body", "apx_return"} =>
           /\ loc.i \in 0 .. NumScales
           /\ loc.scale = Tenth(loc.i)
           /\ Len(loc.relavite_errors) = loc.i
           /\ pc = "apx_body" => loc.i < NumScales
           /\ pc = "apx_return" => loc.i = NumScales
    /\ (pc = "apx_for" /\ loc.i > 0) =>
           loc.relavite_errors[loc.i] =
               [num |-> NormSq(VSub(SMul(Tenth(loc.i - 1), loc.dv),
                                    VSub(loc.v1, loc.v0))),
                den |-> NormSq(VSub(loc.v1, loc.v0))]
    /\ pc = "adm_dv" =>
           /\ Len(loc.relavite_errors) = NumScales
           /\ \E k \in 1 .. NumScales : res[2].error = loc.relavite_errors[k]
           /\ \A k \in 1 .. NumScales :
                  ~RatioLess(loc.relavite_errors[k], res[2].error)
           /\ tol = Tol13 =>
                  /\ RatioLessTol(res[2].error, Tol13)
                  /\ res[2].flag

C3_Witness ==
    /\ pc = "adm_dv"
    /\ tol = Tol13
    /\ res[2].flag
    /\ Len(loc.relavite_errors) = NumScales
    /\ loc.v1 # loc.v0
    /\ loc.scale = [Zero EXCEPT !.mag = <<1>>,
                                !.e = <<NumScales, 0, NumScales>>]

\* C7: each of the three checks ends by returning a (flag, error) pair whose
\* flag is true exactly when the error is strictly below the tolerance; a
\* check that fails returns flag = false and raises nothing, so that the
\* checks after it run and all three results are produced; until the last
\* check has returned, the engine or the running check has a step to take.
C7_ChecksReport ==
    /\ eng.at # "raised"
    /\ \A k \in 1 .. Len(res) :
           res[k].flag =
               CASE res[k].test = "testTLMLinearity" ->
                        NormLess(res[k].error, tol)
                 [] res[k].test = "testTLMApprox" ->
                        RatioLessTol(res[k].error, tol)
                 [] res[k].test = "testADMApprox" -> Less(res[k].error, tol)
    /\ Len(res) =
           (IF pc \in {"lin_dv", "lin_dv2", "lin_return"} THEN 0
            ELSE IF pc = "end" THEN 3
            ELSE IF pc \in {"adm_dv", "adm_Du", "adm_return"} THEN 2 ELSE 1)
    /\ \A k \in 1 .. Len(res) :
           res[k].test = <<"testTLMLinearity", "testTLMApprox",
                           "testADMApprox">>[k]
    /\ pc # "end" =>
           \/ eng.at \in {"stage1", "stage2", "stage3", "adj3", "adj2", "adj1"}
           \/ /\ eng.at = "done"
              /\ pc \in {"lin_dv2", "lin_return", "apx_dv", "apx_scale",
                         "apx_body", "adm_Du", "adm_return"}
           \/ pc \in {"lin_dv", "apx_v0", "apx_for", "apx_return", "adm_dv"}

C7_Witness ==
    /\ pc = "end"
    /\ Len(res) = 3
    /\ ~res[1].flag
    /\ ~res[2].flag
    /\ ~res[3].flag

====
